---------------------------- MODULE Spec2Model ----------------------------
(***************************************************************************)
(* Model of the EPW merge pipeline (src/merge_files_into_parquet.py) and   *)
(* of the comfort-model adapter (src/computation.py).                      *)
(*                                                                         *)
(* Text is modelled as sequences of one-character strings, so that         *)
(* slicing, splitting, case mapping and comparison are computed the way    *)
(* Python computes them.  Wind speeds are fixed-point numbers, scaled by   *)
(* 100000 (0.50001 is 50001).                                              *)
(***************************************************************************)
EXTENDS Integers, Sequences, FiniteSets, TLC

(***************************************************************************)
(* Bounds of the model.                                                    *)
(***************************************************************************)
\* largest number of directory entries of a run
MaxFiles == 3
\* longest time series the decoder returns
MaxLen == 2
\* longest part of a file stem before its last four characters
MaxPrefix == 4
\* longest final component of an output path given on the command line
MaxName == 3
\* largest magnitude of a value or bound handed to saturate on its own
MaxValue == 4

(***************************************************************************)
(* Python text primitives.                                                 *)
(***************************************************************************)
\* the characters of the model in code-point order (str comparison)
Ascii ==
    << " ", "+", "-", ".", "0", "1", "2", "5", "E", "P", "S", "W", "_",
       "a", "b", "c", "d", "e", "p", "s", "t", "w", "x" >>

Ord(c) == CHOOSE i \in 1..Len(Ascii) : Ascii[i] = c

Digits == {"0", "1", "2", "5"}

DigitValue(c) ==
    CASE c = "0" -> 0 [] c = "1" -> 1 [] c = "2" -> 2 [] c = "5" -> 5

\* str.casefold / str.lower on one character (ASCII)
Lower(c) ==
    CASE c = "E" -> "e" [] c = "P" -> "p" [] c = "S" -> "s" [] c = "W" -> "w"
      [] OTHER -> c

\* str.upper on one character (ASCII)
Upper(c) ==
    CASE c = "a" -> "A" [] c = "b" -> "B" [] c = "c" -> "C" [] c = "d" -> "D"
      [] c = "e" -> "E" [] c = "p" -> "P" [] c = "s" -> "S" [] c = "t" -> "T"
      [] c = "w" -> "W" [] c = "x" -> "X" [] OTHER -> c

Casefold(s) == [i \in 1..Len(s) |-> Lower(s[i])]

StrUpper(s) == [i \in 1..Len(s) |-> Upper(s[i])]

\* s[-k:]
LastChars(s, k) == IF Len(s) <= k THEN s ELSE SubSeq(s, Len(s) - k + 1, Len(s))

\* sub in s
Contains(s, sub) ==
    \E i \in 1..(Len(s) - Len(sub) + 1) : SubSeq(s, i, i + Len(sub) - 1) = sub

\* s.split(sep) for a one-character separator
RECURSIVE Split(_, _)
Split(s, sep) ==
    IF \A i \in 1..Len(s) : s[i] # sep
    THEN << s >>
    ELSE LET i == CHOOSE k \in 1..Len(s) :
                     s[k] = sep /\ \A j \in 1..(k - 1) : s[j] # sep
         IN  << SubSeq(s, 1, i - 1) >> \o Split(SubSeq(s, i + 1, Len(s)), sep)

\* a < b for str (lexicographic by code point)
RECURSIVE StrLess(_, _)
StrLess(a, b) ==
    IF b = << >> THEN FALSE
    ELSE IF a = << >> THEN TRUE
    ELSE IF a[1] # b[1] THEN Ord(a[1]) < Ord(b[1])
    ELSE StrLess(Tail(a), Tail(b))

\* s.strip() for the one whitespace character of the model
RECURSIVE Strip(_)
Strip(s) ==
    IF s = << >> THEN s
    ELSE IF s[1] = " " THEN Strip(Tail(s))
    ELSE IF s[Len(s)] = " " THEN Strip(SubSeq(s, 1, Len(s) - 1))
    ELSE s

RECURSIVE DecimalValue(_)
DecimalValue(ds) ==
    IF ds = << >> THEN 0
    ELSE 10 * DecimalValue(SubSeq(ds, 1, Len(ds) - 1)) + DigitValue(ds[Len(ds)])

NoValue == [ok |-> FALSE, val |-> 0]

\* an int() that takes decimal digits only
PyInt_digits_only(s) ==
    IF s # << >> /\ \A i \in 1..Len(s) : s[i] \in Digits
    THEN [ok |-> TRUE, val |-> DecimalValue(s)]
    ELSE NoValue

\* int(s): surrounding whitespace, one optional sign, digits with single
\* underscores between them; anything else is a ValueError (ok = FALSE)
PyInt(s) ==
    LET t    == Strip(s)
        neg  == t # << >> /\ t[1] = "-"
        body == IF t # << >> /\ t[1] \in {"+", "-"} THEN Tail(t) ELSE t
        wellFormed ==
            /\ body # << >>
            /\ \A i \in 1..Len(body) : body[i] \in Digits \cup {"_"}
            /\ body[1] # "_" /\ body[Len(body)] # "_"
            /\ \A i \in 1..(Len(body) - 1) : ~(body[i] = "_" /\ body[i + 1] = "_")
        digits == SelectSeq(body, LAMBDA c : c \in Digits)
    IN  IF wellFormed
        THEN [ok |-> TRUE,
              val |-> IF neg THEN 0 - DecimalValue(digits) ELSE DecimalValue(digits)]
        ELSE NoValue

(***************************************************************************)
(* pathlib: the final component of a path is its name.                     *)
(***************************************************************************)
\* name.rfind("."), 0 when there is no dot
RFindDot(name) ==
    IF \E i \in 1..Len(name) : name[i] = "."
    THEN CHOOSE i \in 1..Len(name) :
             name[i] = "." /\ \A j \in (i + 1)..Len(name) : name[j] # "."
    ELSE 0

HasSuffix(name) == 1 < RFindDot(name) /\ RFindDot(name) < Len(name)

\* PurePath.suffix
Suffix(name) ==
    IF HasSuffix(name) THEN SubSeq(name, RFindDot(name), Len(name)) ELSE << >>

\* PurePath.stem
Stem(name) ==
    IF HasSuffix(name) THEN SubSeq(name, 1, RFindDot(name) - 1) ELSE name


(***************************************************************************)
(* parse_filename                                                          *)
(***************************************************************************)
Baseline == << "B", "a", "s", "e", "l", "i", "n", "e" >>

Ssp == << "s", "s", "p" >>

\* a parse_filename that leaves the scenario token in the case it has
parse_filename_no_upper(name) ==
    LET stem   == Stem(name)
        year   == PyInt(LastChars(stem, 4))
        tokens == Split(stem, "_")
    IN  IF ~year.ok
        THEN [status |-> "ValueError", scenario |-> << >>, year |-> 0]
        ELSE IF ~Contains(Casefold(stem), Casefold(Ssp))
        THEN [status |-> "ok", scenario |-> Baseline, year |-> year.val]
        ELSE IF Len(tokens) < 2
        THEN [status |-> "IndexError", scenario |-> << >>, year |-> 0]
        ELSE [status |-> "ok", scenario |-> tokens[Len(tokens) - 1], year |-> year.val]

\* the result of parse_filename on the path's final component: the
\* exception it raises, or the scenario and year it returns
parse_filename(name) ==
    LET stem   == Stem(name)
        year   == PyInt(LastChars(stem, 4))
        tokens == Split(stem, "_")
    IN  IF ~year.ok
        THEN [status |-> "ValueError", scenario |-> << >>, year |-> 0]
        ELSE IF ~Contains(Casefold(stem), Casefold(Ssp))
        THEN [status |-> "ok", scenario |-> Baseline, year |-> year.val]
        ELSE IF Len(tokens) < 2
        THEN [status |-> "IndexError", scenario |-> << >>, year |-> 0]
        ELSE [status |-> "ok", scenario |-> StrUpper(tokens[Len(tokens) - 1]),
              year |-> year.val]

(***************************************************************************)
(* saturate and the comfort-model adapter (computation.py)                 *)
(***************************************************************************)
UTCI_WIND_LOWER_BOUND == 50001
UTCI_WIND_UPPER_BOUND == 1699999

\* Python's max(a, b) and min(a, b): the first argument unless the second
\* compares greater (smaller)
PyMax(a, b) == IF b > a THEN b ELSE a

PyMin(a, b) == IF b < a THEN b ELSE a

\* a saturation that takes the bounds in the other order
saturate_bounds_swapped(value, lower_bound, upper_bound) ==
    PyMin(PyMax(value, upper_bound), lower_bound)

\* a saturation that forgets the upper bound
saturate_lower_only(value, lower_bound, upper_bound) == PyMax(value, lower_bound)

saturate(value, lower_bound, upper_bound) ==
    PyMin(PyMax(value, lower_bound), upper_bound)

\* numpy broadcasting of two one-dimensional arrays of lengths a and b
Broadcastable(a, b) == a = b \/ a = 1 \/ b = 1

BroadcastLen(a, b) == IF a = 1 THEN b ELSE a

\* the wind speeds handed to utci for the flag value given (lines 68-70)
UtciWind(wind_speed, limit_utci_inputs) ==
    IF limit_utci_inputs
    THEN [i \in 1..Len(wind_speed) |->
             saturate(wind_speed[i], UTCI_WIND_LOWER_BOUND, UTCI_WIND_UPPER_BOUND)]
    ELSE wind_speed

\* the limit_inputs argument handed to utci (line 77)
UtciLimitInputs(limit_utci_inputs) == limit_utci_inputs

\* the keyword arguments of the utci call (lines 71-77)
UtciCall(dry_bulb_temperature, relative_humidity, wind_speed, limit_utci_inputs) ==
    [called |-> TRUE,
     tdb |-> dry_bulb_temperature,
     tr  |-> dry_bulb_temperature,
     v   |-> UtciWind(wind_speed, limit_utci_inputs),
     rh  |-> relative_humidity,
     return_stress_category |-> TRUE,
     limit_inputs |-> UtciLimitInputs(limit_utci_inputs)]

\* compute_comfort_models: whether it raises (the models broadcast their
\* array arguments, compute_heat_index zips strictly), the utci call it
\* makes and the length of each output series
compute_comfort_models(dry_bulb_temperature, relative_humidity, wind_speed, limit_utci_inputs) ==
    LET nT   == Len(dry_bulb_temperature)
        nRH  == Len(relative_humidity)
        call == UtciCall(dry_bulb_temperature, relative_humidity, wind_speed,
                         limit_utci_inputs)
        nV   == Len(call.v)
        diOk   == Broadcastable(nT, nRH)
        utciOk == diOk /\ Broadcastable(BroadcastLen(nT, nRH), nV)
        hiOk   == utciOk /\ nT = nRH
    IN  [raised     |-> ~hiOk,
         called     |-> diOk,
         utci_call  |-> call,
         discomfort_index |-> BroadcastLen(nT, nRH),
         heat_index |-> nT,
         utci       |-> BroadcastLen(BroadcastLen(nT, nRH), nV)]

(***************************************************************************)
(* The file system and the decoder: the environment of a run.              *)
(***************************************************************************)
File_a == << "a", "_", "2", "0", "2", "0", ".", "e", "p", "w" >>
File_b == << "b", "_", "s", "s", "p", "1", "_", "2", "0", "5", "0", ".", "E", "P", "W" >>
File_c == << "c", "_", "2", "0", "x", "0", ".", "e", "p", "w" >>
File_d == << "d", "_", "2", "0", "2", "1", ".", "e", "p", "w" >>
File_e == << "e", "_", "S", "S", "P", "5", "_", "2", "0", "5", "0", ".", "e", "p", "w" >>
File_t == << "t", ".", "t", "x", "t" >>

\* the names a directory of the model may hold
DirEntries == {File_a, File_b, File_c, File_d, File_e, File_t}

Directories == {d \in SUBSET DirEntries : Cardinality(d) <= MaxFiles}

\* the orders in which iterdir() may return the entries of a directory
Enumerations(d) ==
    {l \in [1..Cardinality(d) -> d] : \A i, j \in 1..Cardinality(d) : i # j => l[i] # l[j]}

\* a constant series of the length given
Series(n, v) == [i \in 1..n |-> v]

\* what EPW(file) yields when it does not raise: the series the merge reads
\* (the datetimes come with the dry bulb temperature; "other" stands for the
\* length of the eight series that only the record builder reads)
NoData == [ok |-> FALSE, tdb |-> << >>, rh |-> << >>, wind |-> << >>, other |-> 0]

EPWData(windValues) ==
    {[ok |-> TRUE, tdb |-> Series(nT, 20), rh |-> Series(nRH, 50), wind |-> w, other |-> nO] :
        nT \in 0..MaxLen, nRH \in 0..MaxLen, nO \in 0..MaxLen,
        w \in UNION {[1..n -> windValues] : n \in 0..MaxLen}}

\* wind speeds 0.1, 1.0 and 20.0: below, inside and above the UTCI range
WindValues == {10000, 100000, 2000000}

\* elapsed times of one file, in milliseconds
DurationValues == {1, 2}

(***************************************************************************)
(* main: schema, record builder, run metrics                               *)
(***************************************************************************)
StrictColumns ==
    << "City", "State", "Latitude", "Longitude", "Elevation", "Scenario/Code",
       "Scenario/Year", "Datetime", "Dry Bulb Temperature", "Dew Point Temperature",
       "Relative Humidity", "Atmospheric Station Pressure",
       "Horizontal Infrared Radiation Intensity", "Direct Normal Radiation",
       "Diffuse Horizontal Radiation", "Wind Direction", "Wind Speed",
       "Total Sky Cover", "Opaque Sky Cover" >>

EnrichmentColumns ==
    << "Discomfort Index", "Discomfort Condition", "Heat Index",
       "Universal Thermal Climate Index (UTCI)", "UTCI Stress Category" >>

\* output_schema (lines 122-149): the column names in order
OutputSchema(strict) ==
    StrictColumns \o (IF ~strict THEN EnrichmentColumns ELSE << >>)

Scalar == -1

\* the length of each value of unstructured_data (lines 167-189), Scalar for
\* a value that is not a list
StationLengths(epw) ==
    << Scalar, Scalar, Scalar, Scalar, Scalar, Scalar, Scalar,
       Len(epw.tdb), Len(epw.tdb), epw.other, Len(epw.rh), epw.other, epw.other,
       epw.other, epw.other, epw.other, Len(epw.wind), epw.other, epw.other >>

\* the lengths of the five values added in lines 204-210
EnrichmentLengths(model_output) ==
    << model_output.discomfort_index, model_output.discomfort_index,
       model_output.heat_index, model_output.utci, model_output.utci >>

\* a record that always holds the enrichment columns
UnstructuredColumns_always_enriched(strict) == StrictColumns \o EnrichmentColumns

\* unstructured_data as built in lines 167-210: keys and value lengths
UnstructuredColumns(strict) ==
    StrictColumns \o (IF ~strict THEN EnrichmentColumns ELSE << >>)

UnstructuredLengths(epw, strict, model_output) ==
    StationLengths(epw) \o (IF ~strict THEN EnrichmentLengths(model_output) ELSE << >>)

ListLengths(lengths) == {lengths[i] : i \in 1..Len(lengths)} \ {Scalar}

\* pl.DataFrame(data) raises when its list columns differ in length
DataFrameRaises(lengths) == Cardinality(ListLengths(lengths)) > 1

\* the height of the frame: the common length of the list columns
DataFrameHeight(lengths) ==
    IF ListLengths(lengths) = {} THEN 1 ELSE CHOOSE n \in ListLengths(lengths) : TRUE

Unbound == [bound |-> FALSE, columns |-> << >>, rows |-> << >>, wind |-> << >>]

\* current_data: one row per time step of the file
Batch(file, columns, lengths, wind) ==
    [bound   |-> TRUE,
     columns |-> columns,
     rows    |-> [t \in 1..DataFrameHeight(lengths) |-> [file |-> file, t |-> t]],
     wind    |-> wind]

\* DataFrame.extend raises unless the frames have the same columns and types
ExtendRaises(schema, batch, dtypesMatch) == batch.columns # schema \/ ~dtypesMatch

RECURSIVE Insert(_, _)
Insert(x, sortedList) ==
    IF sortedList = << >> THEN << x >>
    ELSE IF StrLess(x, sortedList[1]) THEN << x >> \o sortedList
    ELSE << sortedList[1] >> \o Insert(x, Tail(sortedList))

\* sorted(epw_file_collection): ascending by path
RECURSIVE Sorted(_)
Sorted(list) ==
    IF list = << >> THEN << >> ELSE Insert(list[Len(list)], Sorted(SubSeq(list, 1, Len(list) - 1)))

EpwSuffix == << ".", "e", "p", "w" >>

\* a discovery that compares the suffix as it is spelled
list_epw_files_case_sensitive(listing) ==
    SelectSeq(listing, LAMBDA f : Suffix(f) = EpwSuffix)

\* list_epw_files on a directory listing: the matching entries in listing
\* order (empty: it raises ValueError)
list_epw_files(listing) ==
    SelectSeq(listing, LAMBDA f : Casefold(Suffix(f)) = Casefold(EpwSuffix))

RECURSIVE SeqSum(_)
SeqSum(q) == IF q = << >> THEN 0 ELSE q[1] + SeqSum(Tail(q))

SeqMax(q) == CHOOSE x \in {q[i] : i \in 1..Len(q)} : \A i \in 1..Len(q) : q[i] <= x

SeqMin(q) == CHOOSE x \in {q[i] : i \in 1..Len(q)} : \A i \in 1..Len(q) : q[i] >= x

\* round(num / den) for num >= 0, den > 0: ties go to the even integer
PyRound(num, den) ==
    LET q == num \div den
        r == num % den
    IN  IF 2 * r < den THEN q
        ELSE IF 2 * r > den THEN q + 1
        ELSE IF q % 2 = 0 THEN q ELSE q + 1

NoSummary == [merged_files_count |-> 0, max_time_ms |-> 0, mean_time_ms |-> 0, min_time_ms |-> 0]

\* a summary whose mean is the sum of the durations
Summary_mean_not_divided(duration) ==
    [merged_files_count |-> Len(duration),
     max_time_ms  |-> SeqMax(duration),
     mean_time_ms |-> SeqSum(duration),
     min_time_ms  |-> SeqMin(duration)]

\* lines 239-244
Summary(duration) ==
    [merged_files_count |-> Len(duration),
     max_time_ms  |-> SeqMax(duration),
     mean_time_ms |-> PyRound(SeqSum(duration), Len(duration)),
     min_time_ms  |-> SeqMin(duration)]

NoError == [type |-> "none", at |-> "none"]

\* a progress numerator that does not discount the failures
FileCounter_not_discounted(index, exception_counter) == index + 1

\* file_counter (line 222)
FileCounter(index, exception_counter) == index + 1 - exception_counter

\* "Wind Speed": epw_file.wind_speed.values (line 187)
WindSpeedColumn(epw) == epw.wind

(***************************************************************************)
(* State.                                                                  *)
(***************************************************************************)
VARIABLES
    args,            \* the parsed command line
    directory,       \* the names in the input directory
    pc,              \* where main is
    error,           \* the exception main ended with, if any
    files,           \* sorted(epw_file_collection), the loop's sequence
    total_files,     \* len(epw_file_collection)
    index,           \* the loop index of enumerate
    output_schema,   \* the column names of output_df
    output_df,       \* the rows of output_df
    process_metrics, \* duration, exception_counter, exported_csv
    summary,         \* the keys process_metrics gets in lines 239-244
    current_data,    \* the local current_data, unbound until first assigned
    file_counter,    \* the local file_counter, 0 until first assigned
    sample_csv,      \* the frames written by write_csv, in order
    parquet,         \* the frames written by write_parquet, in order
    fate,            \* what became of each file visited so far
    parse_in,        \* the file name handed to parse_filename
    parse_out,       \* its result
    comfort_in,      \* a decoded file and the flag handed to the adapter
    comfort_pc,      \* whether the adapter has been called
    utci_call,       \* the arguments the adapter passed to utci
    wind_column,     \* the Wind Speed column of the record
    sat_in,          \* the arguments of saturate
    sat_out,         \* its results: of the call, and of the call on its result
    output_arg,      \* args.output: a path text, or none
    path_pc,         \* how far the paths of the run have been derived
    output_filename, \* the output path validate_io_paths returns
    sample_path      \* the path handed to write_csv

mainVars ==
    << args, directory, pc, error, files, total_files, index, output_schema,
       output_df, process_metrics, summary, current_data, file_counter, sample_csv,
       parquet, fate >>

parseVars == << parse_in, parse_out >>

comfortVars == << comfort_in, comfort_pc, utci_call, wind_column >>

saturateVars == << sat_in, sat_out >>

pathVars == << output_arg, path_pc, output_filename, sample_path >>

vars == << mainVars, parseVars, comfortVars, saturateVars, pathVars >>

Args ==
    [path_is_dir : BOOLEAN, strict : BOOLEAN, limit_utci_inputs : BOOLEAN,
     export_csv : BOOLEAN]

NoResult == [status |-> "none", scenario |-> << >>, year |-> 0]

NoCall ==
    [called |-> FALSE, tdb |-> << >>, tr |-> << >>, v |-> << >>, rh |-> << >>,
     return_stress_category |-> FALSE, limit_inputs |-> FALSE]

MainIdle ==
    /\ args = [path_is_dir |-> TRUE, strict |-> TRUE, limit_utci_inputs |-> FALSE,
               export_csv |-> FALSE]
    /\ directory = {}
    /\ pc = "Idle"

MainStart ==
    /\ error = NoError
    /\ files = << >>
    /\ total_files = 0
    /\ index = 0
    /\ output_schema = << >>
    /\ output_df = << >>
    /\ process_metrics = [duration |-> << >>, exception_counter |-> 0, exported_csv |-> FALSE]
    /\ summary = NoSummary
    /\ current_data = Unbound
    /\ file_counter = 0
    /\ sample_csv = << >>
    /\ parquet = << >>
    /\ fate = << >>

ParseIdle == parse_in = << >> /\ parse_out = NoResult

ComfortIdle ==
    /\ comfort_in = [epw |-> NoData, limit_utci_inputs |-> FALSE]
    /\ comfort_pc = "idle"
    /\ utci_call = NoCall
    /\ wind_column = << >>

SaturateIdle ==
    /\ sat_in = [value |-> 0, lower_bound |-> 0, upper_bound |-> 0]
    /\ sat_out = << >>

NoPath == [status |-> "none", root |-> FALSE, parts |-> << >>]

PathIdle ==
    /\ output_arg = [given |-> FALSE, text |-> << >>]
    /\ path_pc = "idle"
    /\ output_filename = NoPath
    /\ sample_path = NoPath

\* a run of main over any directory and any options
Init ==
    /\ args \in Args
    /\ directory \in Directories
    /\ pc = "Start"
    /\ MainStart
    /\ ParseIdle
    /\ ComfortIdle
    /\ SaturateIdle
    /\ PathIdle

(***************************************************************************)
(* main                                                                    *)
(***************************************************************************)
Raise(type, at) ==
    /\ pc' = "Raised"
    /\ error' = [type |-> type, at |-> at]

\* line 118: validate_io_paths
ValidateIoPaths ==
    /\ pc = "Start"
    /\ IF ~args.path_is_dir
       THEN Raise("ValueError", "validate_io_paths")
       ELSE pc' = "Discovering" /\ error' = error
    /\ UNCHANGED << args, directory, files, total_files, index, output_schema, output_df,
                    process_metrics, summary, current_data, file_counter, sample_csv,
                    parquet, fate >>
    /\ UNCHANGED << parseVars, comfortVars, saturateVars, pathVars >>

\* a loop that runs over the files in the order iterdir() returned them
ProcessingOrder_unsorted(epw_file_collection) == epw_file_collection

\* the order of the loop (line 159)
ProcessingOrder(epw_file_collection) == Sorted(epw_file_collection)

\* lines 120-159: list_epw_files, the schema, the empty table, the metrics
\* and the sorted sequence the loop runs over; of epw_file_collection the
\* loop reads only its length
Setup ==
    /\ pc = "Discovering"
    /\ \E listing \in Enumerations(directory) :
         LET epw_file_collection == list_epw_files(listing)
         IN  IF epw_file_collection = << >>
             THEN /\ Raise("ValueError", "list_epw_files")
                  /\ UNCHANGED << files, total_files, output_schema >>
             ELSE /\ pc' = "PerFile"
                  /\ error' = error
                  /\ files' = ProcessingOrder(epw_file_collection)
                  /\ total_files' = Len(epw_file_collection)
                  /\ output_schema' = OutputSchema(args.strict)
    /\ index' = 0
    /\ output_df' = << >>
    /\ process_metrics' = [duration |-> << >>, exception_counter |-> 0, exported_csv |-> FALSE]
    /\ UNCHANGED << args, directory, summary, current_data, file_counter, sample_csv,
                    parquet, fate >>
    /\ UNCHANGED << parseVars, comfortVars, saturateVars, pathVars >>

\* what the decoder may yield for a readable file of a run: series of one
\* length, or one series (humidity, wind or another) of a length of its own
\* (the wind speeds of a run are inside the UTCI range; CallComfortModels
\* covers the others, and the files with several series out of line)
DecodedFiles ==
    {e \in EPWData({100000}) :
        Cardinality({k \in {"rh", "wind", "other"} :
            (CASE k = "rh" -> Len(e.rh) [] k = "wind" -> Len(e.wind) [] OTHER -> e.other)
                # Len(e.tdb)}) <= 1}

\* parse_filename on each name of the model
ParsedName == [f \in DirEntries |-> parse_filename(f)]

\* the log of the files visited: the file, what became of it, and the height
\* of its batch when one was built
Visit(file, outcome, height) ==
    fate' = Append(fate, [file |-> file, outcome |-> outcome, height |-> height])

\* a handler that also records a duration for the failed file
CountFailure_with_duration(metrics) ==
    [metrics EXCEPT !.exception_counter = @ + 1, !.duration = Append(@, 0)]

\* the except branch (lines 214-218): the failure is logged and counted
CountFailure(metrics) == [metrics EXCEPT !.exception_counter = @ + 1]

\* lines 212-227 for a decoded file: build the batch, extend the table and
\* record the duration
BuildAndExtend(file, epw, model_output) ==
    LET columns == UnstructuredColumns(args.strict)
        lengths == UnstructuredLengths(epw, args.strict, model_output)
        batch   == Batch(file, columns, lengths, WindSpeedColumn(epw))
    IN  IF DataFrameRaises(lengths)
        THEN /\ process_metrics' = CountFailure(process_metrics)
             /\ pc' = "Sample" /\ error' = error
             /\ Visit(file, "build_fail", 0)
             /\ UNCHANGED << output_df, current_data, file_counter >>
        ELSE /\ current_data' = batch
             /\ \E dtypesMatch \in BOOLEAN :
                  IF ExtendRaises(output_schema, batch, dtypesMatch)
                  THEN /\ Raise("SchemaError", "extend")
                       /\ Visit(file, "extend_err", Len(batch.rows))
                       /\ UNCHANGED << output_df, process_metrics, file_counter >>
                  ELSE /\ output_df' = output_df \o batch.rows
                       /\ file_counter' =
                              FileCounter(index, process_metrics.exception_counter)
                       /\ \E elapsed \in DurationValues :
                            process_metrics' =
                                [process_metrics EXCEPT !.duration = Append(@, elapsed)]
                       /\ pc' = "Sample" /\ error' = error
                       /\ Visit(file, "ok", Len(batch.rows))

\* lines 160-227: decode the file, parse its name, run the comfort models,
\* build the batch, extend the table and record the duration
ProcessFile ==
    /\ pc = "PerFile"
    /\ LET file == files[index + 1]
       IN  \/ /\ Raise("DecodeError", "EPW")
              /\ Visit(file, "decode_err", 0)
              /\ UNCHANGED << output_df, process_metrics, current_data, file_counter >>
           \/ /\ ParsedName[file].status # "ok"
              /\ Raise(ParsedName[file].status, "parse_filename")
              /\ Visit(file, "name_err", 0)
              /\ UNCHANGED << output_df, process_metrics, current_data, file_counter >>
           \/ /\ ParsedName[file].status = "ok"
              /\ \E epw \in DecodedFiles :
                   LET model_output ==
                           compute_comfort_models(epw.tdb, epw.rh, epw.wind,
                                                  args.limit_utci_inputs)
                   IN  IF ~args.strict /\ model_output.raised
                       THEN /\ Raise("ValueError", "compute_comfort_models")
                            /\ Visit(file, "adapter_err", 0)
                            /\ UNCHANGED << output_df, process_metrics, current_data, file_counter >>
                       ELSE BuildAndExtend(file, epw, model_output)
    /\ UNCHANGED << args, directory, files, total_files, index, output_schema, summary,
                    sample_csv, parquet >>
    /\ UNCHANGED << parseVars, comfortVars, saturateVars, pathVars >>

\* the loop goes on to the next file, or ends
NextFile ==
    /\ index' = index + 1
    /\ pc' = IF index + 1 < Len(files) THEN "PerFile" ELSE "Summarizing"
    /\ error' = error

\* lines 229-232: the sample CSV of the run
ExportSample ==
    /\ pc = "Sample"
    /\ IF args.export_csv /\ ~process_metrics.exported_csv
       THEN IF ~current_data.bound
            THEN /\ Raise("UnboundLocalError", "write_csv")
                 /\ UNCHANGED << index, sample_csv, process_metrics >>
            ELSE /\ sample_csv' = Append(sample_csv, current_data.rows)
                 /\ process_metrics' = [process_metrics EXCEPT !.exported_csv = TRUE]
                 /\ NextFile
       ELSE /\ NextFile
            /\ UNCHANGED << sample_csv, process_metrics >>
    /\ UNCHANGED << args, directory, files, total_files, output_schema, output_df, summary,
                    current_data, file_counter, parquet, fate >>
    /\ UNCHANGED << parseVars, comfortVars, saturateVars, pathVars >>

\* a test that looks at the durations recorded, not at the rows
IsEmpty_no_duration(df) == process_metrics.duration = << >>

\* DataFrame.is_empty(): the frame has no row
IsEmpty(df) == df = << >>

\* lines 234-249: nothing gathered and the run ends, or the statistics
Summarize ==
    /\ pc = "Summarizing"
    /\ IF IsEmpty(output_df)
       THEN /\ pc' = "Warned"
            /\ UNCHANGED summary
       ELSE /\ summary' = Summary(process_metrics.duration)
            /\ pc' = "Emitting"
    /\ UNCHANGED << args, directory, error, files, total_files, index, output_schema,
                    output_df, process_metrics, current_data, file_counter, sample_csv,
                    parquet, fate >>
    /\ UNCHANGED << parseVars, comfortVars, saturateVars, pathVars >>

\* lines 251-252: the output file
WriteParquet ==
    /\ pc = "Emitting"
    /\ parquet' = Append(parquet, output_df)
    /\ pc' = "Done"
    /\ UNCHANGED << args, directory, error, files, total_files, index, output_schema,
                    output_df, process_metrics, summary, current_data, file_counter,
                    sample_csv, fate >>
    /\ UNCHANGED << parseVars, comfortVars, saturateVars, pathVars >>

Next ==
    ValidateIoPaths \/ Setup \/ ProcessFile \/ ExportSample \/ Summarize \/ WriteParquet

Spec == Init /\ [][Next]_vars

(***************************************************************************)
(* parse_filename on its own, over every name of a bounded alphabet.       *)
(***************************************************************************)
PrefixChars == {"s", "P", "_"}

TailChars == {"2", "0", "+", " ", "_"}

SeqsUpTo(chars, n) == UNION {[1..k -> chars] : k \in 0..n}

\* stems: up to MaxPrefix characters followed by four more, and the stems
\* shorter than four characters
Stems ==
    {p \o t : p \in SeqsUpTo(PrefixChars, MaxPrefix), t \in [1..4 -> TailChars]}
        \cup SeqsUpTo(TailChars, 3)

InitParse ==
    /\ MainIdle
    /\ MainStart
    /\ ComfortIdle
    /\ SaturateIdle
    /\ PathIdle
    /\ parse_in \in {stem \o EpwSuffix : stem \in Stems}
    /\ parse_out = NoResult

ParseFilename ==
    /\ parse_out = NoResult
    /\ parse_out' = parse_filename(parse_in)
    /\ UNCHANGED << parse_in, mainVars, comfortVars, saturateVars, pathVars >>

NextParse == ParseFilename

SpecParse == InitParse /\ [][NextParse]_vars

(***************************************************************************)
(* One call of the comfort models as main makes it, over every series of   *)
(* wind speeds below, inside and above the UTCI range.                     *)
(***************************************************************************)
InitComfort ==
    /\ MainIdle
    /\ MainStart
    /\ ParseIdle
    /\ SaturateIdle
    /\ PathIdle
    /\ comfort_in \in [epw : EPWData(WindValues), limit_utci_inputs : BOOLEAN]
    /\ comfort_pc = "ready"
    /\ utci_call = NoCall
    /\ wind_column = << >>

\* lines 187 and 197-201 of main with compute_comfort_models
CallComfortModels ==
    /\ comfort_pc = "ready"
    /\ LET epw == comfort_in.epw
           model_output ==
               compute_comfort_models(epw.tdb, epw.rh, epw.wind, comfort_in.limit_utci_inputs)
       IN  /\ wind_column' = WindSpeedColumn(epw)
           /\ utci_call' = IF model_output.called THEN model_output.utci_call ELSE NoCall
           /\ comfort_pc' = IF model_output.raised THEN "raised" ELSE "returned"
    /\ UNCHANGED << comfort_in, mainVars, parseVars, saturateVars, pathVars >>

NextComfort == CallComfortModels

SpecComfort == InitComfort /\ [][NextComfort]_vars

(***************************************************************************)
(* Input discovery on its own (lines 120-159 of main), over directories    *)
(* whose names spell the suffix in several ways.                           *)
(***************************************************************************)
File_hidden == << ".", "e", "p", "w" >>
File_mixed  == << "c", ".", "e", "P", "w" >>
File_inner  == << "d", ".", "e", "p", "w", ".", "t", "x", "t" >>
File_outer  == << "e", ".", "t", "x", "t", ".", "e", "p", "w" >>
File_bare   == << "e", "p", "w" >>

ListEntries ==
    {File_a, File_b, File_t, File_hidden, File_mixed, File_inner, File_outer, File_bare}

ListDirectories == {d \in SUBSET ListEntries : Cardinality(d) <= MaxFiles}

InitList ==
    /\ args \in {a \in Args : a.path_is_dir}
    /\ directory \in ListDirectories
    /\ pc = "Discovering"
    /\ MainStart
    /\ ParseIdle
    /\ ComfortIdle
    /\ SaturateIdle
    /\ PathIdle

NextList == Setup

SpecList == InitList /\ [][NextList]_vars

(***************************************************************************)
(* saturate on its own, over every value and every pair of bounds of a     *)
(* range of numbers, applied to a value and then to its own result.        *)
(***************************************************************************)
SaturateValues == (0 - MaxValue)..MaxValue

InitSaturate ==
    /\ MainIdle
    /\ MainStart
    /\ ParseIdle
    /\ ComfortIdle
    /\ PathIdle
    /\ sat_in \in [value : SaturateValues, lower_bound : SaturateValues,
                   upper_bound : SaturateValues]
    /\ sat_out = << >>

\* saturate(value, lower_bound, upper_bound), then saturate of the result
Saturate ==
    /\ Len(sat_out) < 2
    /\ LET value == IF sat_out = << >> THEN sat_in.value ELSE sat_out[Len(sat_out)]
       IN  sat_out' = Append(sat_out, saturate(value, sat_in.lower_bound, sat_in.upper_bound))
    /\ UNCHANGED << sat_in, mainVars, parseVars, comfortVars, pathVars >>

NextSaturate == Saturate

SpecSaturate == InitSaturate /\ [][NextSaturate]_vars

(***************************************************************************)
(* The paths of a run: the output path of validate_io_paths (lines 38-46)  *)
(* and the path of the sample CSV (line 230), over output arguments with   *)
(* and without directories and dots.                                       *)
(***************************************************************************)
\* Path(text): the components between slashes, without the empty ones and
\* the "." ones; root tells an absolute path
PathOf(text) ==
    [status |-> "ok",
     root   |-> text # << >> /\ text[1] = "/",
     parts  |-> SelectSeq(Split(text, "/"), LAMBDA c : c # << >> /\ c # << "." >>)]

\* PurePath.name
PathName(path) == IF path.parts = << >> THEN << >> ELSE path.parts[Len(path.parts)]

\* PurePath.stem
PathStem(path) == Stem(PathName(path))

\* PurePath.parent
PathParent(path) ==
    IF path.parts = << >> THEN path
    ELSE [path EXCEPT !.parts = SubSeq(path.parts, 1, Len(path.parts) - 1)]

\* PurePath.with_suffix: ValueError for a path with an empty name
WithSuffix(path, suffix) ==
    IF PathName(path) = << >>
    THEN [status |-> "ValueError", root |-> FALSE, parts |-> << >>]
    ELSE [path EXCEPT !.parts[Len(path.parts)] = Stem(PathName(path)) \o suffix]

ParquetSuffix == << ".", "p", "a", "r", "q", "u", "e", "t" >>

CsvSuffix == << ".", "c", "s", "v" >>

\* datetime.now().strftime("%Y-%m-%d %H_%M") at two moments
Timestamps ==
    {<< "2", "0", "2", "5", "-", "0", "1", "-", "0", "2", " ", "1", "0", "_", "2", "0" >>,
     << "2", "0", "2", "5", "-", "1", "2", "-", "0", "1", " ", "0", "0", "_", "0", "0" >>}

CompiledTo == << " ", "c", "o", "m", "p", "i", "l", "e", "d", "_", "t", "o" >>

OutputDirs ==
    {<< >>, << "d", "/" >>, << "/", "d", "/" >>, << ".", "/" >>,
     << "d", "/", "e", "/" >>}

OutputNames == SeqsUpTo({"o", "."}, MaxName)

\* args.output: absent, or a directory part followed by a final component
OutputArgs ==
    {[given |-> FALSE, text |-> << >>]}
        \cup {[given |-> TRUE, text |-> d \o n] : d \in OutputDirs, n \in OutputNames}

InitPaths ==
    /\ MainIdle
    /\ MainStart
    /\ ParseIdle
    /\ ComfortIdle
    /\ SaturateIdle
    /\ output_arg \in OutputArgs
    /\ path_pc = "args"
    /\ output_filename = NoPath
    /\ sample_path = NoPath

\* validate_io_paths, lines 38-46
ResolveOutput ==
    /\ path_pc = "args"
    /\ \E stamp \in Timestamps :
         output_filename' =
             IF ~output_arg.given
             THEN WithSuffix(PathOf(stamp \o CompiledTo), ParquetSuffix)
             ELSE WithSuffix(PathOf(output_arg.text), ParquetSuffix)
    /\ path_pc' = IF output_filename'.status = "ok" THEN "resolved" ELSE "raised"
    /\ UNCHANGED << output_arg, sample_path, mainVars, parseVars, comfortVars, saturateVars >>

\* line 230: the path handed to write_csv
WriteSamplePath ==
    /\ path_pc = "resolved"
    /\ sample_path' = WithSuffix(PathOf(PathStem(output_filename)), CsvSuffix)
    /\ path_pc' = "sampled"
    /\ UNCHANGED << output_arg, output_filename, mainVars, parseVars, comfortVars,
                    saturateVars >>

NextPaths == ResolveOutput \/ WriteSamplePath

SpecPaths == InitPaths /\ [][NextPaths]_vars

(***************************************************************************)
(* Properties of a run of main.                                            *)
(***************************************************************************)
Visited == 1..Len(fate)

OkFiles == {i \in Visited : fate[i].outcome = "ok"}

\* every file visited so far was merged or failed batch construction
OnlyBuildFailures == \A i \in Visited : fate[i].outcome \in {"ok", "build_fail"}

Ended == pc \in {"Done", "Warned"}

\* files are still to come, and each of them has a name that parses
MergeableToCome ==
    /\ Len(fate) < Len(files)
    /\ \A j \in (Len(fate) + 1)..Len(files) : ParsedName[files[j]].status = "ok"

RowsOf(entry) == [t \in 1..entry.height |-> [file |-> entry.file, t |-> t]]

\* the batches of the merged files, in the order the files were visited
RECURSIVE MergedRows(_)
MergedRows(log) ==
    IF log = << >> THEN << >>
    ELSE MergedRows(SubSeq(log, 1, Len(log) - 1))
             \o (IF log[Len(log)].outcome = "ok" THEN RowsOf(log[Len(log)]) ELSE << >>)

\* C1: in a run whose files each either build their batch or fail batch
\* construction, with at least one file that builds (or is still to come),
\* main never raises, under any options and wherever the failing files
\* stand; the table holds exactly the batches of the files that built, one
\* duration is recorded for each of them, and the output file is written.
C1_FailureIsolation ==
    (OnlyBuildFailures /\ (OkFiles # {} \/ MergeableToCome)) =>
        /\ pc # "Raised"
        /\ output_df = MergedRows(fate)
        /\ Len(process_metrics.duration) = Cardinality(OkFiles)
        /\ (Ended /\ OkFiles # {}) => (pc = "Done" /\ parquet = << MergedRows(fate) >>)

\* C2: an error raised while a file is processed (decoding, file name,
\* comfort models, batch construction, extending the table) never ends the
\* run: it is counted, no duration is recorded for the file, and every
\* file has been visited once when the run reaches the summary.
C2_PerFileErrorsRecovered ==
    /\ pc = "Raised" =>
           error.at \notin {"EPW", "parse_filename", "compute_comfort_models", "extend"}
    /\ process_metrics.exception_counter = Cardinality(Visited \ OkFiles)
    /\ Len(process_metrics.duration) = Cardinality(OkFiles)
    /\ pc \in {"Summarizing", "Emitting", "Done", "Warned"} =>
           /\ Len(fate) = Len(files)
           /\ \A i \in Visited : fate[i].file = files[i]

FirstOk == CHOOSE i \in OkFiles : \A j \in OkFiles : i <= j

\* C3: the sample CSV is never written unless requested and at most once;
\* when requested it holds the rows of the first file in sorted order whose
\* batch was built, also after files whose batch construction failed: the
\* export step skips those and the run goes on to the files still to come.
C3_SampleOnce ==
    /\ ~args.export_csv => sample_csv = << >>
    /\ Len(sample_csv) <= 1
    /\ (sample_csv # << >>) => (OkFiles # {} /\ sample_csv[1] = RowsOf(fate[FirstOk]))
    /\ (/\ args.export_csv /\ OkFiles # {}
        /\ pc \in {"PerFile", "Summarizing", "Emitting", "Done", "Warned"})
           => Len(sample_csv) = 1
    /\ ~(/\ pc = "Raised" /\ error.at = "write_csv"
         /\ OnlyBuildFailures /\ MergeableToCome)

\* C4: when every discovered file failed batch construction the run ends
\* normally under any options: no exception, no output file, no sample.
C4_AllFailEndsNormally ==
    (/\ fate # << >>
     /\ Len(fate) = Len(files)
     /\ \A i \in Visited : fate[i].outcome = "build_fail")
        => /\ pc \in {"Sample", "Summarizing", "Warned"}
           /\ parquet = << >>
           /\ sample_csv = << >>

\* StrLess on the names of the model, tabulated: the names after each name
After == [f \in DirEntries |-> {g \in DirEntries : StrLess(f, g)}]

\* the names of the model with the weather-file suffix in any letter case
EpwNames == {f \in DirEntries : Casefold(Suffix(f)) = Casefold(EpwSuffix)}

EpwEntries == directory \cap EpwNames

\* C5: the loop runs over the matching files of the directory in ascending
\* order of path, whatever order the directory was listed in (the sequence
\* depends on the set of files alone), the files are visited in that order,
\* and in the table and in the output file every row of a file precedes
\* every row of a file with a greater path.
C5_SortedOrder ==
    (pc \notin {"Start", "Discovering", "Raised"} \/ fate # << >>) =>
        /\ {files[i] : i \in 1..Len(files)} = EpwEntries
        /\ Len(files) = Cardinality(EpwEntries)
        /\ \A i, j \in 1..Len(files) : i < j => files[j] \in After[files[i]]
        /\ \A i \in Visited : fate[i].file = files[i]
        /\ \A i, j \in 1..Len(output_df) :
               i < j => output_df[i].file \notin After[output_df[j].file]
        /\ pc = "Done" => parquet = << output_df >>

\* a finished run that merged three files
C5_Witness ==
    /\ pc = "Done"
    /\ Cardinality({output_df[i].file : i \in 1..Len(output_df)}) = 3
    /\ parquet = << output_df >>

\* C6: a run that ends with an exception has written no artifact, neither
\* the output file nor the sample CSV; the configuration error and the
\* empty-input error are raised before any file is processed.
C6_NoArtifactOnError ==
    pc = "Raised" =>
        /\ parquet = << >>
        /\ sample_csv = << >>
        /\ error.at \in {"validate_io_paths", "list_epw_files"} => fate = << >>

\* C8: every batch built (and so every batch appended) has exactly the
\* columns of the table schema: the 19 strict-mode columns in strict mode,
\* those followed by the 5 enrichment columns otherwise.
C8_BatchMatchesSchema ==
    current_data.bound =>
        /\ current_data.columns = output_schema
        /\ Len(output_schema) = (IF args.strict THEN 19 ELSE 24)
        /\ \A i \in 1..19 : current_data.columns[i] = StrictColumns[i]
        /\ \A c \in {EnrichmentColumns[i] : i \in 1..5} :
               /\ (\E i \in 1..Len(current_data.columns) : current_data.columns[i] = c)
                      <=> ~args.strict
               /\ (\E i \in 1..Len(output_schema) : output_schema[i] = c) <=> ~args.strict

\* a finished run that appended a batch with the enrichment columns
C8_Witness ==
    /\ pc = "Done"
    /\ ~args.strict
    /\ current_data.bound
    /\ Len(current_data.columns) = 24
    /\ Len(fate) >= 2 /\ OkFiles = Visited

(***************************************************************************)
(* Properties of the comfort-model adapter.                                *)
(***************************************************************************)
InUtciRange(v) == UTCI_WIND_LOWER_BOUND <= v /\ v <= UTCI_WIND_UPPER_BOUND

\* the adapter changed a wind speed that is outside the UTCI range
Saturated ==
    \E i \in 1..Len(utci_call.v) :
        ~InUtciRange(comfort_in.epw.wind[i]) /\ InUtciRange(utci_call.v[i])

\* C7: in every call of the adapter exactly one out-of-range policy is
\* active: with clampInputs true the wind speeds are saturated and utci is
\* told not to reject out-of-range inputs; with clampInputs false they are
\* passed unchanged and utci is told to reject them. Saturation and
\* rejection are never both on and never both off.
C7_ExactlyOnePolicy ==
    utci_call.called =>
        /\ comfort_in.limit_utci_inputs =>
               /\ \A i \in 1..Len(utci_call.v) : InUtciRange(utci_call.v[i])
               /\ ~utci_call.limit_inputs
        /\ ~comfort_in.limit_utci_inputs =>
               /\ utci_call.v = comfort_in.epw.wind
               /\ utci_call.limit_inputs
        /\ (\E i \in 1..Len(comfort_in.epw.wind) : ~InUtciRange(comfort_in.epw.wind[i]))
               => (Saturated <=> ~utci_call.limit_inputs)

ParsedStem == SubSeq(parse_in, 1, Len(parse_in) - 4)

EndsInFourDigits(stem) ==
    Len(stem) >= 4 /\ \A i \in (Len(stem) - 3)..Len(stem) : stem[i] \in Digits

FourDigitValue(stem) ==
    LET n == Len(stem)
    IN  1000 * DigitValue(stem[n - 3]) + 100 * DigitValue(stem[n - 2])
            + 10 * DigitValue(stem[n - 1]) + DigitValue(stem[n])

NamesSsp(stem) ==
    \E i \in 1..(Len(stem) - 2) :
        stem[i] \in {"s", "S"} /\ stem[i + 1] \in {"s", "S"} /\ stem[i + 2] \in {"p", "P"}

Underscores(stem) == {i \in 1..Len(stem) : stem[i] = "_"}

\* the text between the last two underscores (from the start of the stem
\* when it has one underscore only)
TokenBeforeLast(stem) ==
    LET last == CHOOSE i \in Underscores(stem) : \A j \in Underscores(stem) : j <= i
        before == {i \in Underscores(stem) : i < last}
        prev == IF before = {} THEN 0
                ELSE CHOOSE i \in before : \A j \in before : j <= i
    IN  SubSeq(stem, prev + 1, last - 1)

ExpectedScenario(stem) ==
    IF ~NamesSsp(stem) THEN Baseline ELSE StrUpper(TokenBeforeLast(stem))

\* C10: for every stem whose last four characters are decimal digits,
\* parse_filename returns the decimal value of those four characters as the
\* year, and as the scenario "Baseline" when the stem holds no "ssp" in any
\* letter case, the upper-cased second-to-last underscore token otherwise.
C10_ParseFilename ==
    (parse_out # NoResult /\ EndsInFourDigits(ParsedStem)) =>
        /\ parse_out.status = "ok"
        /\ parse_out.year = FourDigitValue(ParsedStem)
        /\ parse_out.scenario = ExpectedScenario(ParsedStem)

\* C10 as amended: the same, except that a stem that holds "ssp" and no
\* underscore makes parse_filename raise IndexError and return nothing.
C10_ParseFilenameAmended ==
    (parse_out # NoResult /\ EndsInFourDigits(ParsedStem)) =>
        IF NamesSsp(ParsedStem) /\ Underscores(ParsedStem) = {}
        THEN parse_out.status = "IndexError"
        ELSE /\ parse_out.status = "ok"
             /\ parse_out.year = FourDigitValue(ParsedStem)
             /\ parse_out.scenario = ExpectedScenario(ParsedStem)

\* the stem ssP_2020 parsed to SSP and 2020
C10_Witness ==
    /\ ParsedStem = << "s", "s", "P", "_", "2", "0", "2", "0" >>
    /\ parse_out = [status |-> "ok", scenario |-> << "S", "S", "P" >>, year |-> 2020]

\* the last four characters of the stem, the whole stem when it is shorter
YearText == LastChars(ParsedStem, 4)

\* t is an integer literal of int(): spaces around, one optional sign, then
\* digits with single underscores between digits
IsIntLiteral(t) ==
    \E i, j \in 1..Len(t) :
        /\ i <= j
        /\ \A k \in 1..(i - 1) : t[k] = " "
        /\ \A k \in (j + 1)..Len(t) : t[k] = " "
        /\ LET b == IF t[i] \in {"+", "-"} THEN i + 1 ELSE i
           IN  /\ b <= j
               /\ t[b] \in Digits /\ t[j] \in Digits
               /\ \A k \in b..j : t[k] \in Digits \/ (t[k] = "_" /\ t[k - 1] # "_")

LiteralValue(t) ==
    LET v == DecimalValue(SelectSeq(t, LAMBDA c : c \in Digits))
    IN  IF \E k \in 1..Len(t) : t[k] = "-" THEN 0 - v ELSE v

\* C11: for every stem whose last four characters are not all decimal
\* digits (a sign, a space or an underscore among them, or a stem shorter
\* than four characters), parse_filename fails with a numeric-parse error
\* and returns no scenario and no year.
C11_NonDigitYearFails ==
    (parse_out # NoResult /\ ~EndsInFourDigits(ParsedStem)) =>
        parse_out = [status |-> "ValueError", scenario |-> << >>, year |-> 0]

\* C11 as amended: parse_filename fails with a numeric-parse error, and
\* returns nothing, exactly when the last four characters of the stem (the
\* whole stem when it is shorter) are not an integer literal of int():
\* spaces around, one optional sign, digits with single underscores between
\* digits.  A literal that is not four digits is read as a year: "+202",
\* " 202" and "2_02" as 202, the short stem "20" as 20.
C11_NonLiteralYearFails ==
    parse_out # NoResult =>
        /\ ~IsIntLiteral(YearText) =>
               parse_out = [status |-> "ValueError", scenario |-> << >>, year |-> 0]
        /\ IsIntLiteral(YearText) =>
               /\ parse_out.status # "ValueError"
               /\ parse_out.status = "ok" => parse_out.year = LiteralValue(YearText)

\* the stem P_2+02 failed with a numeric-parse error
C11_Witness ==
    /\ ParsedStem = << "P", "_", "2", "+", "0", "2" >>
    /\ parse_out = [status |-> "ValueError", scenario |-> << >>, year |-> 0]

(***************************************************************************)
(* Properties of input discovery.                                          *)
(***************************************************************************)
\* the name has something before a final ".epw" in any letter case
IsWeatherFile(name) ==
    LET n == Len(name)
    IN  /\ n > 4
        /\ name[n - 3] = "."
        /\ name[n - 2] \in {"e", "E"}
        /\ name[n - 1] \in {"p", "P"}
        /\ name[n] \in {"w", "W"}

WeatherFiles == {f \in directory : IsWeatherFile(f)}

\* C12: for every directory, discovery yields exactly the entries whose
\* extension is the weather-file suffix in any letter case (a_2020.epw and
\* b_ssp1_2050.EPW, not t.txt), none added, dropped or listed twice, and it
\* raises the empty-input error if and only if there is no such entry.
C12_ExactDiscovery ==
    pc # "Discovering" =>
        /\ (pc = "Raised") <=> (WeatherFiles = {})
        /\ pc = "Raised" => error = [type |-> "ValueError", at |-> "list_epw_files"]
        /\ pc # "Raised" =>
               /\ {files[i] : i \in 1..Len(files)} = WeatherFiles
               /\ Len(files) = Cardinality(WeatherFiles)
               /\ total_files = Cardinality(WeatherFiles)

\* a.epw and b.EPW were found beside t.txt
C12_Witness ==
    /\ pc = "PerFile"
    /\ directory = {File_a, File_b, File_t}
    /\ files = << File_a, File_b >>
    /\ total_files = 2

(***************************************************************************)
(* Properties of saturate.                                                 *)
(***************************************************************************)
\* C13: for all bounds lo <= hi and every value v, saturate(v, lo, hi) lies
\* in [lo, hi]; it is v when v is in [lo, hi], lo when v < lo and hi when
\* v > hi; saturating the result again gives the same value.
C13_Saturate ==
    (sat_out # << >> /\ sat_in.lower_bound <= sat_in.upper_bound) =>
        LET v  == sat_in.value
            lo == sat_in.lower_bound
            hi == sat_in.upper_bound
        IN  /\ lo <= sat_out[1] /\ sat_out[1] <= hi
            /\ (lo <= v /\ v <= hi) => sat_out[1] = v
            /\ v < lo => sat_out[1] = lo
            /\ v > hi => sat_out[1] = hi
            /\ Len(sat_out) = 2 => sat_out[2] = sat_out[1]

\* a value above the bounds saturated to the upper bound, twice
C13_Witness ==
    /\ sat_in = [value |-> 3, lower_bound |-> -1, upper_bound |-> 2]
    /\ sat_out = << 2, 2 >>

(***************************************************************************)
(* Properties of the run metrics.                                          *)
(***************************************************************************)
\* a file has just been appended: main stands between lines 227 and 229
JustAppended == pc = "Sample" /\ fate[Len(fate)].outcome = "ok"

ProgressNumeratorInv ==
    /\ JustAppended =>
           /\ file_counter = index + 1 - process_metrics.exception_counter
           /\ file_counter = Len(process_metrics.duration)
           /\ file_counter = Cardinality(OkFiles)
           /\ output_df = MergedRows(fate)
           /\ file_counter \in 1..total_files
    /\ pc = "Sample" =>
           /\ Len(fate) = index + 1
           /\ process_metrics.exception_counter + Len(process_metrics.duration) = index + 1
    /\ pc \in {"PerFile", "Summarizing", "Emitting", "Done", "Warned"} =>
           /\ Len(fate) = index
           /\ process_metrics.exception_counter + Len(process_metrics.duration) = index

ProgressNumeratorStep ==
    /\ Len(process_metrics.duration') # Len(process_metrics.duration) =>
           file_counter' = file_counter + 1
    /\ file_counter' # file_counter =>
           Len(process_metrics.duration') = Len(process_metrics.duration) + 1

\* C14: after each appended file with loop index i the progress numerator
\* i + 1 - failureCount is the number of durations recorded and of batches
\* appended so far and lies in 1..totalFiles; after every file the loop has
\* dealt with, failureCount plus the number of durations is the number of
\* files dealt with; the numerator grows by exactly one from one appended
\* file to the next.
C14_ProgressNumerator == []ProgressNumeratorInv /\ [][ProgressNumeratorStep]_vars

\* the third file appended after one failure: numerator 2 of 3
C14_Witness ==
    /\ JustAppended
    /\ index = 2
    /\ process_metrics.exception_counter = 1
    /\ file_counter = 2
    /\ total_files = 3

(***************************************************************************)
(* Properties of the end of a run.                                         *)
(***************************************************************************)
\* C15: at the end of the loop the run stops without an output file if and
\* only if no file was appended (no duration recorded); with at least one
\* file appended the output file is written, whatever the number of rows
\* of the appended batches (also for an appended file without time steps).
C15_StopsIffNoneAppended ==
    Ended =>
        /\ (pc = "Warned") <=> (OkFiles = {})
        /\ (pc = "Warned") <=> (process_metrics.duration = << >>)
        /\ pc = "Warned" => parquet = << >>
        /\ OkFiles # {} => parquet = << MergedRows(fate) >>

\* C15 as amended: the run stops without an output file if and only if the
\* table holds no row, that is when no file was appended or every appended
\* batch has zero rows (durations are recorded for those all the same);
\* when an appended batch holds a row the output file is written, once,
\* with the rows of all appended batches.
C15_StopsIffNoRows ==
    Ended =>
        /\ (pc = "Warned") <=> (\A i \in OkFiles : fate[i].height = 0)
        /\ pc = "Warned" => parquet = << >>
        /\ pc = "Done" => (parquet = << MergedRows(fate) >> /\ MergedRows(fate) # << >>)
        /\ Len(process_metrics.duration) = Cardinality(OkFiles)

\* a run that appended two files without time steps and wrote nothing
C15_Witness ==
    /\ pc = "Warned"
    /\ Cardinality(OkFiles) = 2
    /\ Len(process_metrics.duration) = 2
    /\ parquet = << >>

\* batch construction has just failed: main stands between lines 218 and 229
BuildFailed == pc = "Sample" /\ fate[Len(fate)].outcome = "build_fail"

\* what a failed file leaves alone: table, durations, flag and artifacts
FailureFrame ==
    /\ output_df' = output_df
    /\ process_metrics'.duration = process_metrics.duration
    /\ process_metrics'.exported_csv = process_metrics.exported_csv
    /\ sample_csv' = sample_csv
    /\ parquet' = parquet

FailureStep ==
    /\ process_metrics'.exception_counter # process_metrics.exception_counter =>
           /\ process_metrics'.exception_counter = process_metrics.exception_counter + 1
           /\ BuildFailed'
           /\ FailureFrame
    /\ BuildFailed' /\ ~BuildFailed =>
           /\ process_metrics'.exception_counter = process_metrics.exception_counter + 1
           /\ FailureFrame
    /\ BuildFailed =>
           /\ process_metrics'.exception_counter = process_metrics.exception_counter
           /\ FailureFrame

\* C16: the step that handles a batch-construction failure adds one to the
\* failure count and changes nothing else of the run's results: the rows of
\* the table, the durations and the sample-exported flag are as before, and
\* neither the sample CSV nor the output file is written, in the handler
\* and in the rest of that file's iteration (lines 229-232).
C16_FailureFrame == [][FailureStep]_vars

\* a failure after an appended file: the table and the duration are kept
C16_Witness ==
    /\ BuildFailed
    /\ process_metrics.exception_counter = 1
    /\ Len(process_metrics.duration) = 1
    /\ output_df = MergedRows(fate) /\ output_df # << >>
    /\ parquet = << >>

\* the statistics of lines 239-244 have been computed
SummaryComputed == pc \in {"Emitting", "Done"}

Durations == {process_metrics.duration[i] : i \in 1..Len(process_metrics.duration)}

SummaryInv ==
    /\ SummaryComputed =>
           /\ process_metrics.duration # << >>
           /\ Len(process_metrics.duration) = Cardinality(OkFiles)
           /\ Len(process_metrics.duration) + process_metrics.exception_counter = Len(fate)
           /\ summary.min_time_ms \in Durations /\ summary.max_time_ms \in Durations
           /\ \A d \in Durations : summary.min_time_ms <= d /\ d <= summary.max_time_ms
           /\ LET n   == Len(process_metrics.duration)
                  sum == SeqSum(process_metrics.duration)
                  off == n * summary.mean_time_ms - sum
              IN  2 * off <= n /\ 2 * (0 - off) <= n
           /\ summary.min_time_ms <= summary.mean_time_ms
           /\ summary.mean_time_ms <= summary.max_time_ms
           /\ summary.merged_files_count = Cardinality(OkFiles)
    /\ ~SummaryComputed => (summary = NoSummary /\ parquet = << >>)
    /\ Len(parquet) <= 1

SummaryStep ==
    parquet' # parquet =>
        /\ SummaryComputed
        /\ summary' = summary
        /\ parquet = << >>
        /\ parquet' = << output_df >>

\* C17: whenever the statistics are computed the list of durations is not
\* empty and holds one entry for each appended file and none for a failed
\* one, so that minimum, mean and maximum are defined, min <= mean <= max,
\* and the merged-file count is the number of appended files; the output
\* file is written only after the statistics, and at most once in a run.
C17_SummaryDefined == []SummaryInv /\ [][SummaryStep]_vars

\* two files appended in 1 ms and 2 ms: mean 1.5, reported as 2
C17_Witness ==
    /\ pc = "Done"
    /\ process_metrics.duration = << 1, 2 >>
    /\ process_metrics.exception_counter = 1
    /\ summary = [merged_files_count |-> 2, max_time_ms |-> 2, mean_time_ms |-> 2,
                  min_time_ms |-> 1]
    /\ Len(parquet) = 1

(***************************************************************************)
(* Properties of the paths.                                                *)
(***************************************************************************)
\* C18: for every output path, with or without a directory part, the
\* sample CSV is written beside the output file: its path has the parent
\* directory and the stem of the output path, and the extension .csv.
C18_SampleIsSibling ==
    path_pc = "sampled" =>
        /\ sample_path.status = "ok"
        /\ PathParent(sample_path) = PathParent(output_filename)
        /\ PathStem(sample_path) = PathStem(output_filename)
        /\ Suffix(PathName(sample_path)) = CsvSuffix

=============================================================================
